---- MODULE Spec2Model ----
(***************************************************************************)
(* Model of material/frontend/views/detail.py: DetailModelView, a thin     *)
(* wrapper over django.views.generic.DetailView.                           *)
(*                                                                         *)
(* The view instance is a record of its attributes.  Every method of the   *)
(* class is an operator computing the method's result (a returned value or *)
(* a raised exception, plus the calls it made to the permission backend    *)
(* and to the viewset); every method also has an action that calls it on   *)
(* the current view and stores the result in `last`.                       *)
(*                                                                         *)
(* Python's None is the empty tuple, a present value x is <<x>>.           *)
(***************************************************************************)
EXTENDS Naturals, Sequences, FiniteSets, TLC

VARIABLES view, constructed, reassigned, urlconf, last

vars == <<view, constructed, reassigned, urlconf, last>>

None == <<>>

Some(x) == <<x>>

Val(o) == o[1]

----------------------------------------------------------------------------
(* Results of a call *)

Ret(v, q, vc) ==
    [outcome |-> "return", exc |-> "", msg |-> "", value |-> v,
     queries |-> q, vcalls |-> vc]

Raise(e, m, q, vc) ==
    [outcome |-> "raise", exc |-> e, msg |-> m, value |-> None,
     queries |-> q, vcalls |-> vc]

Returned(r) == r.outcome = "return"

Raised(r, e) == r.outcome = "raise" /\ r.exc = e

----------------------------------------------------------------------------
(* Permission checks, lines 42-86 *)

\* Variant: the codename built from the app label instead of the model name
GetPermissionCodenameAppLabel(action, opts) == action \o "_" \o opts.app_label

\* django.contrib.auth.get_permission_codename: '%s_%s' % (action, opts.model_name)
GetPermissionCodename(action, opts) == action \o "_" \o opts.model_name

\* '{}.{}'.format(opts.app_label, codename)
PermString(action, opts) ==
    opts.app_label \o "." \o GetPermissionCodename(action, opts)

\* request.user.has_perm(perm, obj=obj): the backend's answer for this user
HasPerm(request, perm, obj) == perm \in request.granted

HasChangePermission(v, request, obj) ==
    IF v.viewset # None
    THEN Ret(Val(v.viewset).change, <<>>, <<<<"has_change_permission", request, obj>>>>)
    ELSE IF v.model = None
    THEN Raise("AttributeError", "_meta", <<>>, <<>>)
    ELSE LET opts == Val(v.model)
             perm == PermString("change", opts)
         IN  Ret(HasPerm(request, perm, obj), <<<<perm, obj>>>>, <<>>)

HasDeletePermission(v, request, obj) ==
    IF v.viewset # None
    THEN Ret(Val(v.viewset).delete, <<>>, <<<<"has_delete_permission", request, obj>>>>)
    ELSE IF v.model = None
    THEN Raise("AttributeError", "_meta", <<>>, <<>>)
    ELSE LET opts == Val(v.model)
             perm == PermString("delete", opts)
         IN  Ret(HasPerm(request, perm, obj), <<<<perm, obj>>>>, <<>>)

\* Variant: no fallback to the change permission
HasViewPermissionNoFallback(v, request, obj) ==
    IF v.viewset # None
    THEN Ret(Val(v.viewset).view, <<>>, <<<<"has_view_permission", request, obj>>>>)
    ELSE IF v.model = None
    THEN Raise("AttributeError", "_meta", <<>>, <<>>)
    ELSE LET opts == Val(v.model)
             view_perm == PermString("view", opts)
         IN  Ret(HasPerm(request, view_perm, obj), <<<<view_perm, obj>>>>, <<>>)

HasViewPermission(v, request, obj) ==
    IF v.viewset # None
    THEN Ret(Val(v.viewset).view, <<>>, <<<<"has_view_permission", request, obj>>>>)
    ELSE IF v.model = None
    THEN Raise("AttributeError", "_meta", <<>>, <<>>)
    ELSE LET opts == Val(v.model)
             view_perm == PermString("view", opts)
             chg == HasChangePermission(v, request, obj)
         IN  IF HasPerm(request, view_perm, obj)
             THEN Ret(TRUE, <<<<view_perm, obj>>>>, <<>>)
             ELSE [chg EXCEPT !.queries = <<<<view_perm, obj>>>> \o @]

----------------------------------------------------------------------------
(* get_object_data, lines 22-40 *)

IsLower(c) == c \in {"a", "b", "c"}

IsUpper(c) == c \in {"A", "B", "C"}

IsCased(c) == IsLower(c) \/ IsUpper(c)

ToUpper(c) == CASE c = "a" -> "A" [] c = "b" -> "B" [] c = "c" -> "C" [] OTHER -> c

ToLower(c) == CASE c = "A" -> "a" [] c = "B" -> "b" [] c = "C" -> "c" [] OTHER -> c

\* str.title(): a cased character is upper-cased when it follows an uncased
\* one (or starts the string) and lower-cased otherwise
Title(s) ==
    [i \in 1..Len(s) |->
        IF ~IsCased(s[i]) THEN s[i]
        ELSE IF i > 1 /\ IsCased(s[i - 1]) THEN ToLower(s[i])
        ELSE ToUpper(s[i])]

\* "get_{}_display".format(field.get_attname())
ChoiceDisplayAttr(f) == "get_" \o f.attname \o "_display"

\* hasattr(self.object, name): a model instance has get_<name>_display for
\* each of its fields declared with choices
HasAttr(obj, name) ==
    \E i \in 1..Len(obj.fields) :
        /\ obj.fields[i].choices # {}
        /\ ChoiceDisplayAttr(obj.fields[i]) = name

\* getattr(self.object, choice_display_attr)(): the label of the stored
\* value, or the stored value itself when no choice matches it
GetDisplay(f) ==
    IF f.value # None /\ \E c \in f.choices : c[1] = Val(f.value)
    THEN Some((CHOOSE c \in f.choices : c[1] = Val(f.value))[2])
    ELSE f.value

\* Variant: auto-created fields are not skipped
RECURSIVE YieldedNoAutoCreatedCheck(_, _)
YieldedNoAutoCreatedCheck(obj, i) ==
    IF i > Len(obj.fields) THEN <<>>
    ELSE LET field == obj.fields[i]
             rest == YieldedNoAutoCreatedCheck(obj, i + 1)
         IN  IF field.auto_field THEN rest
             ELSE IF HasAttr(obj, ChoiceDisplayAttr(field)) THEN rest
             ELSE IF field.value # None
                  THEN <<[field |-> i,
                          label |-> Title(field.verbose_name),
                          value |-> Val(field.value)]>> \o rest
                  ELSE rest

\* The loop body for fields i..Len(fields).  Each element is the yielded
\* (label, value) pair together with the index of the field it was yielded for.
RECURSIVE Yielded(_, _)
Yielded(obj, i) ==
    IF i > Len(obj.fields) THEN <<>>
    ELSE LET field == obj.fields[i]
             rest == Yielded(obj, i + 1)
         IN  IF field.auto_field THEN rest
             ELSE IF field.auto_created THEN rest
             ELSE IF HasAttr(obj, ChoiceDisplayAttr(field))
                  THEN \* the value is computed; the yield is in the else branch
                       LET value == GetDisplay(field) IN rest
                  ELSE LET value == field.value
                       IN  IF value # None
                           THEN <<[field |-> i,
                                   label |-> Title(field.verbose_name),
                                   value |-> Val(value)]>> \o rest
                           ELSE rest

\* list(self.get_object_data())
GetObjectData(v) ==
    IF ~v.has_object THEN Raise("AttributeError", "object", <<>>, <<>>)
    ELSE IF v.object = None THEN Raise("AttributeError", "_meta", <<>>, <<>>)
    ELSE Ret(Yielded(Val(v.object), 1), <<>>, <<>>)

----------------------------------------------------------------------------
(* get_object, lines 88-96 *)

\* SingleObjectMixin.get_queryset(), called at line 119 and by the base get_object()
GetQueryset(v) ==
    IF v.queryset # None THEN Ret(Val(v.queryset), <<>>, <<>>)
    ELSE IF v.model # None THEN Ret([model |-> Val(v.model)], <<>>, <<>>)
    ELSE Raise("ImproperlyConfigured", "missing_queryset", <<>>, <<>>)

\* super().get_object(): `found` is what the lookup in the queryset finds
SuperGetObject(v, found) ==
    LET qs == GetQueryset(v)
    IN  IF ~Returned(qs) THEN qs
        ELSE IF found = None THEN Raise("Http404", "", <<>>, <<>>)
        ELSE Ret(found, <<>>, <<>>)

\* Variant: the retrieved object is returned without the permission check
GetObjectNoGate(v, found) == SuperGetObject(v, found)

GetObject(v, found) ==
    LET sup == SuperGetObject(v, found)
    IN  IF ~Returned(sup) THEN sup
        ELSE LET obj == sup.value
                 perm == HasViewPermission(v, v.request, obj)
             IN  IF ~Returned(perm) THEN perm
                 ELSE IF ~perm.value
                 THEN Raise("PermissionDenied", "", perm.queries, perm.vcalls)
                 ELSE Ret(obj, perm.queries, perm.vcalls)

----------------------------------------------------------------------------
(* get_form_class, lines 98-127 *)

\* model_forms.modelform_factory(model, fields=self.fields)
ModelformFactory(model, fields) ==
    [kind |-> "modelform", name |-> "", model |-> Some(model), fields |-> fields]

FormClassItself(v) ==
    [kind |-> "form_class", name |-> Val(v.form_class), model |-> None, fields |-> None]

\* Variant: the class of the object is preferred to the configured model
FormModelObjectFirst(v) ==
    IF v.has_object /\ v.object # None THEN Ret(Val(v.object).cls, <<>>, <<>>)
    ELSE IF v.model # None THEN Ret(Val(v.model), <<>>, <<>>)
    ELSE LET qs == GetQueryset(v)
         IN  IF Returned(qs) THEN Ret(qs.value.model, <<>>, <<>>) ELSE qs

\* lines 109-119: the model the form is built for
FormModel(v) ==
    IF v.model # None THEN Ret(Val(v.model), <<>>, <<>>)
    ELSE IF v.has_object /\ v.object # None THEN Ret(Val(v.object).cls, <<>>, <<>>)
    ELSE LET qs == GetQueryset(v)
         IN  IF Returned(qs) THEN Ret(qs.value.model, <<>>, <<>>) ELSE qs

\* Variant: fields and form_class set together are accepted
GetFormClassNoBothCheck(v) ==
    IF v.form_class # None
    THEN Ret(FormClassItself(v), <<>>, <<>>)
    ELSE LET model == FormModel(v)
         IN  IF ~Returned(model) THEN model
             ELSE IF v.fields = None
             THEN Raise("ImproperlyConfigured", "no_fields", <<>>, <<>>)
             ELSE Ret(ModelformFactory(model.value, v.fields), <<>>, <<>>)

GetFormClass(v) ==
    IF v.fields # None /\ v.form_class # None
    THEN Raise("ImproperlyConfigured", "both", <<>>, <<>>)
    ELSE IF v.form_class # None
    THEN Ret(FormClassItself(v), <<>>, <<>>)
    ELSE LET model == FormModel(v)
         IN  IF ~Returned(model) THEN model
             ELSE IF v.fields = None
             THEN Raise("ImproperlyConfigured", "no_fields", <<>>, <<>>)
             ELSE Ret(ModelformFactory(model.value, v.fields), <<>>, <<>>)

----------------------------------------------------------------------------
(* get_context_data, lines 129-148 *)

EmptyDict == [k \in {} |-> None]

DictSet(d, k, x) == [a \in DOMAIN d \cup {k} |-> IF a = k THEN x ELSE d[a]]

\* dict.update
DictUpdate(d, e) ==
    [a \in DOMAIN d \cup DOMAIN e |-> IF a \in DOMAIN e THEN e[a] ELSE d[a]]

\* '{}:{}_change'.format(opts.app_label, opts.model_name), and _delete
UrlName(opts, action) == opts.app_label \o ":" \o opts.model_name \o "_" \o action

\* reverse(name, args=[pk]) in a URL configuration that registers `urls`
Reverse(urls, name, pk) ==
    IF name \in urls
    THEN Ret([url_name |-> name, args |-> <<pk>>], <<>>, <<>>)
    ELSE Raise("NoReverseMatch", name, <<>>, <<>>)

\* SingleObjectMixin.get_context_object_name
GetContextObjectName(v, obj) ==
    IF v.context_object_name # None THEN Val(v.context_object_name)
    ELSE obj.cls.model_name

\* super().get_context_data(**kwargs), line 148: SingleObjectMixin adds the
\* object under 'object' and under its context name, the caller's keywords
\* override both, and ContextMixin adds 'view' when absent
SuperGetContextData(v, kwargs) ==
    LET base == IF v.object # None
                THEN DictSet(DictSet(EmptyDict, "object", v.object),
                             GetContextObjectName(v, Val(v.object)), v.object)
                ELSE EmptyDict
        ctx == DictUpdate(base, kwargs)
    IN  IF "view" \in DOMAIN ctx THEN ctx ELSE DictSet(ctx, "view", "self")

\* Variant: the link is added whatever the permission check returns
AddUrlAlways(v, urls, kwargs, perm, action) ==
    IF ~Returned(perm) THEN perm
    ELSE IF v.object = None THEN Raise("AttributeError", "pk", <<>>, <<>>)
    ELSE LET url == Reverse(urls, UrlName(Val(v.model), action), Val(v.object).pk)
         IN  IF ~Returned(url) THEN url
             ELSE Ret(DictSet(kwargs, action \o "_url", url.value), <<>>, <<>>)

\* lines 139-142 (action "change") and 143-146 (action "delete"): `perm` is
\* the result of the permission check, `kwargs` the keywords so far
AddUrl(v, urls, kwargs, perm, action) ==
    IF ~Returned(perm) THEN perm
    ELSE IF ~perm.value THEN Ret(kwargs, <<>>, <<>>)
    ELSE IF v.object = None THEN Raise("AttributeError", "pk", <<>>, <<>>)
    ELSE LET url == Reverse(urls, UrlName(Val(v.model), action), Val(v.object).pk)
         IN  IF ~Returned(url) THEN url
             ELSE Ret(DictSet(kwargs, action \o "_url", url.value), <<>>, <<>>)

GetContextData(v, urls, kwargs) ==
    IF v.model = None THEN Raise("AttributeError", "_meta", <<>>, <<>>)
    ELSE IF ~v.has_object THEN Raise("AttributeError", "object", <<>>, <<>>)
    ELSE
    LET k1 == DictSet(kwargs, "object_data", "get_object_data()")
        chg == HasChangePermission(v, v.request, v.object)
        k2 == AddUrl(v, urls, k1, chg, "change")
        del == HasDeletePermission(v, v.request, v.object)
        k3 == AddUrl(v, urls, k2.value, del, "delete")
        fc == GetFormClass(v)
    IN  IF ~Returned(k2) THEN [k2 EXCEPT !.queries = chg.queries, !.vcalls = chg.vcalls]
        ELSE IF ~Returned(k3)
        THEN [k3 EXCEPT !.queries = chg.queries \o del.queries,
                        !.vcalls = chg.vcalls \o del.vcalls]
        ELSE IF ~Returned(fc)
        THEN [fc EXCEPT !.queries = chg.queries \o del.queries,
                        !.vcalls = chg.vcalls \o del.vcalls]
        ELSE LET form == [form_class |-> fc.value, instance |-> v.object]
                 k4 == DictSet(k3.value, "form", form)
             IN  Ret(SuperGetContextData(v, k4),
                     chg.queries \o del.queries, chg.vcalls \o del.vcalls)

----------------------------------------------------------------------------
(* get_template_names, lines 150-169 *)

\* Variant: the generic template comes first
GetTemplateNamesGenericFirst(v) ==
    IF v.template_name = None
    THEN IF v.model = None THEN Raise("AttributeError", "_meta", <<>>, <<>>)
         ELSE LET opts == Val(v.model)
              IN  Ret(<<"material/frontend/views/detail.html",
                        opts.app_label \o "/" \o opts.model_name
                            \o v.template_name_suffix \o ".html">>, <<>>, <<>>)
    ELSE Ret(<<Val(v.template_name)>>, <<>>, <<>>)

GetTemplateNames(v) ==
    IF v.template_name = None
    THEN IF v.model = None THEN Raise("AttributeError", "_meta", <<>>, <<>>)
         ELSE LET opts == Val(v.model)
              IN  Ret(<<opts.app_label \o "/" \o opts.model_name
                            \o v.template_name_suffix \o ".html",
                        "material/frontend/views/detail.html">>, <<>>, <<>>)
    ELSE Ret(<<Val(v.template_name)>>, <<>>, <<>>)

----------------------------------------------------------------------------
(* Bounds and the values the model draws from *)

MaxFields == 2

MaxReassign == 1

Product == [app_label |-> "shop", model_name |-> "product"]

Order == [app_label |-> "sales", model_name |-> "order"]

Invoice == [app_label |-> "billing", model_name |-> "invoice"]

Actions == {"view", "change", "delete"}

\* The permissions of one action, over the models above
Grants(a) ==
    CASE a = "view" -> {"shop.view_product", "sales.view_order", "billing.view_invoice"}
      [] a = "change" -> {"shop.change_product", "sales.change_order", "billing.change_invoice"}
      [] a = "delete" -> {"shop.delete_product", "sales.delete_order", "billing.delete_invoice"}

Requests == {[granted |-> UNION {Grants(a) : a \in A}] : A \in SUBSET Actions}

Viewsets == [view : BOOLEAN, change : BOOLEAN, delete : BOOLEAN]

\* Field instances: the implicit id, an explicit AutoField, an auto-created
\* parent link, a plain field and a field with choices, with their stored values
FieldInstances ==
    {[auto_field |-> TRUE, auto_created |-> TRUE, attname |-> "id",
      verbose_name |-> <<"A", "B">>, choices |-> {}, value |-> Some("1")],
     [auto_field |-> TRUE, auto_created |-> FALSE, attname |-> "id",
      verbose_name |-> <<"a", "b">>, choices |-> {}, value |-> Some("1")],
     [auto_field |-> FALSE, auto_created |-> TRUE, attname |-> "ptr",
      verbose_name |-> <<"b", " ", "c">>, choices |-> {}, value |-> Some("7")]}
    \cup
    {[auto_field |-> FALSE, auto_created |-> FALSE, attname |-> "name",
      verbose_name |-> <<"a", "b", " ", "c">>, choices |-> {}, value |-> x]
        : x \in {None, Some("x")}}
    \cup
    {[auto_field |-> FALSE, auto_created |-> FALSE, attname |-> "status",
      verbose_name |-> <<"c", "B">>, choices |-> {<<"d", "Draft">>, <<"p", "Public">>},
      value |-> x]
        : x \in {None, Some("d"), Some("z")}}

\* Field lists of at most MaxFields fields with distinct attribute names
FieldLists ==
    {fs \in UNION {[1..n -> FieldInstances] : n \in 0..MaxFields} :
        \A i, j \in 1..Len(fs) : i # j => fs[i].attname # fs[j].attname}

ObjP ==
    [cls |-> Product, pk |-> "1",
     fields |-> <<CHOOSE f \in FieldInstances : f.auto_field /\ f.auto_created,
                  CHOOSE f \in FieldInstances : f.attname = "name" /\ f.value # None>>]

ObjO ==
    [cls |-> Order, pk |-> "2",
     fields |-> <<CHOOSE f \in FieldInstances : f.auto_field /\ f.auto_created>>]

UrlNames == {UrlName(m, a) : m \in {Product, Order, Invoice}, a \in {"change", "delete"}}

\* URL configurations: every change and delete view registered, or only the
\* change views
UrlConfs == {UrlNames, {n \in UrlNames : \E m \in {Product, Order, Invoice} : n = UrlName(m, "change")}}

\* Keyword arguments a caller passes to get_context_data
KwargsSet ==
    {EmptyDict,
     [k \in {"title"} |-> "t"],
     [k \in {"change_url"} |-> "/caller"],
     [k \in {"delete_url"} |-> "/caller"]}

----------------------------------------------------------------------------
(* The view before __init__: class attributes (lines 12-15 and those of    *)
(* DetailView) overridden by the subclass and by as_view()'s keywords      *)

BaseView ==
    [viewset |-> None, form_class |-> None, layout |-> None, fields |-> None,
     model |-> Some(Product), queryset |-> None,
     template_name |-> None, template_name_suffix |-> "_detail",
     context_object_name |-> None,
     has_object |-> TRUE, object |-> Some(ObjP),
     request |-> [granted |-> {}]]

ObjectSlots ==
    {<<FALSE, None>>, <<TRUE, None>>, <<TRUE, Some(ObjP)>>, <<TRUE, Some(ObjO)>>}

PermViews ==
    {[BaseView EXCEPT !.viewset = vs, !.request = rq, !.model = m] :
        vs \in {None} \cup {Some(x) : x \in Viewsets},
        rq \in Requests,
        m \in {None, Some(Product), Some(Order)}}

CtxViews ==
    {[BaseView EXCEPT !.has_object = o[1], !.object = o[2],
                      !.context_object_name = n, !.request = rq,
                      !.form_class = fc[1], !.fields = fc[2]] :
        o \in ObjectSlots,
        n \in {None, Some("item"), Some("change_url"), Some("delete_url")},
        rq \in Requests,
        fc \in {<<None, None>>, <<Some("ProductForm"), None>>,
                <<Some("ProductForm"), Some("__all__")>>}}

FormViews ==
    {[BaseView EXCEPT !.form_class = fc, !.fields = fl, !.model = m,
                      !.has_object = o[1], !.object = o[2],
                      !.queryset = qs, !.template_name = tn] :
        fc \in {None, Some("ProductForm")},
        fl \in {None, Some("__all__"), Some("name,status")},
        m \in {None, Some(Product)},
        o \in ObjectSlots \ {<<TRUE, Some(ObjP)>>},
        qs \in {None, Some([model |-> Invoice])},
        tn \in {None, Some("custom.html")}}

DataViews ==
    {[BaseView EXCEPT !.object = Some([cls |-> Product, pk |-> "1", fields |-> fs])] :
        fs \in FieldLists}

NoCall == [op |-> "none", arg |-> None, res |-> Ret(None, <<>>, <<>>)]

Init ==
    /\ \/ view \in PermViews /\ urlconf = UrlNames
       \/ view \in CtxViews /\ urlconf \in UrlConfs
       \/ view \in FormViews /\ urlconf = UrlNames
       \/ view \in DataViews /\ urlconf = UrlNames
    /\ constructed = FALSE
    /\ reassigned = 0
    /\ last = NoCall

----------------------------------------------------------------------------
(* Operations *)

\* Variant: fields is left as configured
DetailModelViewInitNoDefault(v) == v

\* __init__, lines 17-20
DetailModelViewInit(v) ==
    IF v.form_class = None /\ v.fields = None
    THEN [v EXCEPT !.fields = Some("__all__")]
    ELSE v

Construct ==
    /\ ~constructed
    /\ view' = DetailModelViewInit(view)
    /\ constructed' = TRUE
    /\ last' = [NoCall EXCEPT !.op = "__init__"]
    /\ UNCHANGED <<reassigned, urlconf>>

\* Client code assigns the public attribute fields or form_class of a
\* constructed view
SetAttr ==
    /\ constructed
    /\ reassigned < MaxReassign
    /\ \/ \E x \in {None, Some("__all__")} : view' = [view EXCEPT !.fields = x]
       \/ \E x \in {None, Some("ProductForm")} : view' = [view EXCEPT !.form_class = x]
    /\ reassigned' = reassigned + 1
    /\ last' = [NoCall EXCEPT !.op = "setattr"]
    /\ UNCHANGED <<constructed, urlconf>>

Call(op, arg, res) ==
    /\ constructed
    /\ last' = [op |-> op, arg |-> arg, res |-> res]
    /\ UNCHANGED <<view, constructed, reassigned, urlconf>>

ObjArgs == {None, Some(ObjP)}

CallHasViewPermission ==
    \E obj \in ObjArgs :
        Call("has_view_permission", obj, HasViewPermission(view, view.request, obj))

CallHasChangePermission ==
    \E obj \in ObjArgs :
        Call("has_change_permission", obj, HasChangePermission(view, view.request, obj))

CallHasDeletePermission ==
    \E obj \in ObjArgs :
        Call("has_delete_permission", obj, HasDeletePermission(view, view.request, obj))

CallGetObject ==
    \E found \in {None, Some(ObjP), Some(ObjO)} :
        Call("get_object", found, GetObject(view, found))

CallGetObjectData == Call("get_object_data", None, GetObjectData(view))

CallGetFormClass == Call("get_form_class", None, GetFormClass(view))

CallGetContextData ==
    \E kwargs \in KwargsSet :
        Call("get_context_data", kwargs, GetContextData(view, urlconf, kwargs))

CallGetTemplateNames == Call("get_template_names", None, GetTemplateNames(view))

Next ==
    \/ Construct
    \/ SetAttr
    \/ CallHasViewPermission
    \/ CallHasChangePermission
    \/ CallHasDeletePermission
    \/ CallGetObject
    \/ CallGetObjectData
    \/ CallGetFormClass
    \/ CallGetContextData
    \/ CallGetTemplateNames

Spec == Init /\ [][Next]_vars

----------------------------------------------------------------------------
(* Properties.  `last` always holds the result of a call on the current    *)
(* view: SetAttr, the only action that changes a constructed view, resets  *)
(* it.                                                                     *)

IsCall(op) == last.op = op

\* The permission string of an action on a model, written out
PermLiteral(action, model) ==
    CASE action = "view" /\ model = Product -> "shop.view_product"
      [] action = "change" /\ model = Product -> "shop.change_product"
      [] action = "delete" /\ model = Product -> "shop.delete_product"
      [] action = "view" /\ model = Order -> "sales.view_order"
      [] action = "change" /\ model = Order -> "sales.change_order"
      [] action = "delete" /\ model = Order -> "sales.delete_order"

\* has_change_permission(request, obj) returned true for the argument of the last call
ChangeGranted ==
    LET c == HasChangePermission(view, view.request, last.arg)
    IN  Returned(c) /\ c.value

\* C1 as stated: with or without a viewset, whenever has_change_permission
\* returns true, has_view_permission returns true
C1_ViewFollowsChangeAnyViewset ==
    (IsCall("has_view_permission") /\ ChangeGranted)
        => (Returned(last.res) /\ last.res.value)

\* C1 amended: when no viewset is configured, whenever has_change_permission
\* returns true, has_view_permission returns true, whether or not the view
\* permission itself is granted
C1_ViewFollowsChange ==
    (IsCall("has_view_permission") /\ view.viewset = None /\ ChangeGranted)
        => (Returned(last.res) /\ last.res.value)

C1_Witness ==
    /\ IsCall("has_view_permission")
    /\ view.viewset = None
    /\ view.model = Some(Product)
    /\ "shop.view_product" \notin view.request.granted
    /\ ChangeGranted
    /\ last.res.value

----------------------------------------------------------------------------

\* C2: every field that is neither an AutoField nor auto-created and has a
\* choice-display accessor gets a pair in get_object_data() whose value is
\* the accessor's display value (when that value is not None)
C2_ChoiceDisplayYielded ==
    (IsCall("get_object_data") /\ Returned(last.res)) =>
        LET obj == Val(view.object)
        IN  \A i \in 1..Len(obj.fields) :
                LET f == obj.fields[i]
                IN  (/\ ~f.auto_field
                     /\ ~f.auto_created
                     /\ HasAttr(obj, ChoiceDisplayAttr(f))
                     /\ GetDisplay(f) # None)
                    => \E j \in 1..Len(last.res.value) :
                           /\ last.res.value[j].field = i
                           /\ last.res.value[j].value = Val(GetDisplay(f))

----------------------------------------------------------------------------

\* C3: get_object() raises PermissionDenied whenever has_view_permission is
\* false for the retrieved object, and returns the retrieved object only when
\* has_view_permission is true
C3_GetObjectGate ==
    IsCall("get_object") =>
        LET perm == HasViewPermission(view, view.request, last.arg)
            retrieved == Returned(SuperGetObject(view, last.arg))
        IN  /\ (retrieved /\ Returned(perm) /\ ~perm.value)
                   => Raised(last.res, "PermissionDenied")
            /\ Returned(last.res)
                   => (retrieved /\ Returned(perm) /\ perm.value
                       /\ last.res.value = last.arg)
            /\ Raised(last.res, "PermissionDenied")
                   => (retrieved /\ Returned(perm) /\ ~perm.value)

C3_Witness ==
    /\ IsCall("get_object")
    /\ last.arg # None
    /\ Raised(last.res, "PermissionDenied")

----------------------------------------------------------------------------

\* has_<action>_permission(request, object) is true for the view's object
Permitted(action) ==
    LET p == IF action = "change"
             THEN HasChangePermission(view, view.request, view.object)
             ELSE HasDeletePermission(view, view.request, view.object)
    IN  Returned(p) /\ p.value

\* C4 as stated: for every set of caller-supplied keywords, the returned
\* context has change_url iff has_change_permission is true, and delete_url
\* iff has_delete_permission is true
C4_UrlIffPermissionAnyKwargs ==
    (IsCall("get_context_data") /\ Returned(last.res)) =>
        \A a \in {"change", "delete"} :
            (a \o "_url") \in DOMAIN last.res.value <=> Permitted(a)

\* The key is supplied neither by the caller's keywords nor as the name the
\* base class stores the object under
KeyNotSupplied(key) ==
    /\ key \notin DOMAIN last.arg
    /\ view.object # None => GetContextObjectName(view, Val(view.object)) # key

\* C4 amended: when neither the caller's keywords nor the context object
\* name supply the key, the returned context has change_url iff
\* has_change_permission is true, and delete_url iff has_delete_permission is
\* true
C4_UrlIffPermission ==
    (IsCall("get_context_data") /\ Returned(last.res)) =>
        \A a \in {"change", "delete"} :
            KeyNotSupplied(a \o "_url") =>
                ((a \o "_url") \in DOMAIN last.res.value <=> Permitted(a))

C4_Witness ==
    /\ IsCall("get_context_data")
    /\ Returned(last.res)
    /\ last.arg = EmptyDict
    /\ view.context_object_name = None
    /\ "change_url" \in DOMAIN last.res.value
    /\ "delete_url" \notin DOMAIN last.res.value
    /\ Permitted("change")
    /\ ~Permitted("delete")

----------------------------------------------------------------------------

BothSet == view.fields # None /\ view.form_class # None

NeitherSet == view.fields = None /\ view.form_class = None

IsFormClassItself(r) ==
    Returned(r) /\ r.value.kind = "form_class" /\ r.value.name = Val(view.form_class)

IsModelFormFromFields(r) ==
    Returned(r) /\ r.value.kind = "modelform" /\ r.value.fields = view.fields

\* A model is configured, or the view has an object, or a queryset is configured
ModelResolvable ==
    \/ view.model # None
    \/ view.has_object /\ view.object # None
    \/ view.queryset # None

\* C5 as stated: ImproperlyConfigured when both fields and form_class are
\* set and when neither is set; in every other configuration a form class is
\* returned
C5_FormClassConfigAnyModel ==
    IsCall("get_form_class") =>
        /\ BothSet => Raised(last.res, "ImproperlyConfigured")
        /\ NeitherSet => Raised(last.res, "ImproperlyConfigured")
        /\ (~BothSet /\ ~NeitherSet)
               => (IsFormClassItself(last.res) \/ IsModelFormFromFields(last.res))

\* C5 amended: ImproperlyConfigured when both are set and when neither is
\* set; otherwise form_class itself is returned when set, and the model form
\* built from fields when the target model is resolvable
C5_FormClassConfig ==
    IsCall("get_form_class") =>
        /\ BothSet => Raised(last.res, "ImproperlyConfigured")
        /\ NeitherSet => Raised(last.res, "ImproperlyConfigured")
        /\ (~BothSet /\ view.form_class # None) => IsFormClassItself(last.res)
        /\ (~NeitherSet /\ view.form_class = None /\ ModelResolvable)
               => IsModelFormFromFields(last.res)
        /\ (view.form_class = None /\ ~ModelResolvable)
               => Raised(last.res, "ImproperlyConfigured")

C5_Witness ==
    /\ IsCall("get_form_class")
    /\ NeitherSet
    /\ ModelResolvable
    /\ Raised(last.res, "ImproperlyConfigured")
    /\ last.res.msg = "no_fields"

----------------------------------------------------------------------------

\* The label of each field of the model, written out
LabelLiteral(attname) ==
    CASE attname = "name" -> <<"A", "b", " ", "C">>
      [] attname = "status" -> <<"C", "b">>
      [] attname = "ptr" -> <<"B", " ", "C">>
      [] attname = "id" -> <<"A", "b">>

----------------------------------------------------------------------------

PermissionOps ==
    {"has_view_permission", "has_change_permission", "has_delete_permission"}

ActionOf(op) ==
    CASE op = "has_view_permission" -> "view"
      [] op = "has_change_permission" -> "change"
      [] op = "has_delete_permission" -> "delete"

\* C7: with a viewset, each permission check returns what the viewset's
\* method of the same name returns for (request, obj) and the backend is not
\* queried; without one, the backend is queried with
\* '<app_label>.<action>_<model_name>' for the user and the object, and the
\* viewset is not called
C7_Delegation ==
    (last.op \in PermissionOps) =>
        LET a == ActionOf(last.op)
            r == last.res
        IN  /\ view.viewset # None =>
                   /\ Returned(r)
                   /\ r.value = Val(view.viewset)[a]
                   /\ r.queries = <<>>
                   /\ r.vcalls = <<<<last.op, view.request, last.arg>>>>
            /\ (view.viewset = None /\ view.model # None) =>
                   /\ Returned(r)
                   /\ r.vcalls = <<>>
                   /\ Len(r.queries) >= 1
                   /\ r.queries[1] = <<PermLiteral(a, Val(view.model)), last.arg>>
                   /\ a # "view" =>
                          /\ Len(r.queries) = 1
                          /\ r.value = (PermLiteral(a, Val(view.model))
                                            \in view.request.granted)

C7_Witness ==
    /\ IsCall("has_delete_permission")
    /\ view.viewset = None
    /\ view.model = Some(Order)
    /\ last.res.queries = <<<<"sales.delete_order", last.arg>>>>
    /\ last.res.value

----------------------------------------------------------------------------

\* The model-specific template of a model, written out
TemplateLiteral(model) ==
    CASE model = Product -> "shop/product_detail.html"
      [] model = Order -> "sales/order_detail.html"

\* C8: get_template_names() returns [template_name] when template_name is
\* configured, and otherwise '<app_label>/<model_name><suffix>.html' followed
\* by 'material/frontend/views/detail.html'
C8_TemplateNames ==
    IsCall("get_template_names") =>
        /\ view.template_name # None =>
               (Returned(last.res) /\ last.res.value = <<Val(view.template_name)>>)
        /\ (view.template_name = None /\ view.model # None) =>
               /\ Returned(last.res)
               /\ last.res.value = <<TemplateLiteral(Val(view.model)),
                                     "material/frontend/views/detail.html">>

C8_Witness ==
    /\ IsCall("get_template_names")
    /\ view.template_name = None
    /\ Returned(last.res)
    /\ Len(last.res.value) = 2
    /\ last.res.value[1] = "sales/order_detail.html"

----------------------------------------------------------------------------

\* C9: a model form is built for the configured model when there is one,
\* else for the class of the view's object when there is one, else for the
\* model of get_queryset()
C9_ModelPriority ==
    (IsCall("get_form_class") /\ Returned(last.res)
        /\ last.res.value.kind = "modelform") =>
        LET m == Val(last.res.value.model)
            hasObj == view.has_object /\ view.object # None
        IN  /\ view.model # None => m = Val(view.model)
            /\ (view.model = None /\ hasObj) => m = Val(view.object).cls
            /\ (view.model = None /\ ~hasObj) =>
                   (view.queryset # None /\ m = Val(view.queryset).model)

C9_Witness ==
    /\ IsCall("get_form_class")
    /\ Returned(last.res)
    /\ last.res.value.kind = "modelform"
    /\ view.model = None
    /\ view.object = Some(ObjO)
    /\ view.queryset = Some([model |-> Invoice])
    /\ last.res.value.model = Some(Order)

----------------------------------------------------------------------------

FormCalls == {"get_form_class", "get_context_data"}

\* C10 as stated: on a constructed view whose attributes were not
\* reassigned, form_class and fields are never both None, and the only
\* configuration failure of get_form_class() and get_context_data() is the
\* one for setting both fields and form_class
C10_OnlyBothFailure ==
    (constructed /\ reassigned = 0) =>
        /\ ~NeitherSet
        /\ (last.op \in FormCalls /\ Raised(last.res, "ImproperlyConfigured"))
               => last.res.msg = "both"

\* C10 amended: on a constructed view whose attributes were not reassigned,
\* form_class and fields are never both None, get_form_class() and
\* get_context_data() never fail for missing fields, and their configuration
\* failures are the one for setting both fields and form_class and the one
\* of get_queryset() when no model can be resolved
C10_NoMissingFieldsFailure ==
    (constructed /\ reassigned = 0) =>
        /\ ~NeitherSet
        /\ (last.op \in FormCalls /\ Raised(last.res, "ImproperlyConfigured"))
               => \/ last.res.msg = "both" /\ BothSet
                  \/ /\ last.res.msg = "missing_queryset"
                     /\ ~ModelResolvable
                     /\ last.op = "get_form_class"

C10_Witness ==
    /\ constructed
    /\ reassigned = 0
    /\ IsCall("get_context_data")
    /\ view.fields = Some("__all__")
    /\ view.form_class = None
    /\ Returned(last.res)

====
